---------------------------- MODULE Spec2Model ----------------------------
(***************************************************************************)
(* State-machine model of aws_lambda/gesture_processor.py: the Lambda      *)
(* entry point lambda_handler(event, context), the caller that invokes it  *)
(* repeatedly and holds the response objects it gets back.                 *)
(*                                                                         *)
(* Python values are records [t |-> type name, v |-> payload].  Python     *)
(* strings that are serialised are sequences of one-character strings, so  *)
(* that json.dumps is a real conversion on characters.                     *)
(***************************************************************************)
EXTENDS Integers, Sequences, FiniteSets, TLC

(***************************************************************************)
(* Bounds of the model.                                                    *)
(***************************************************************************)
\* Longest landmark list an event carries.
MaxLandmarks == 2
\* Number of invocations of lambda_handler in one behaviour.
MaxCalls == 3

(***************************************************************************)
(* Python values.                                                          *)
(***************************************************************************)
NoneV == [t |-> "None", v |-> "None"]
IntV == [t |-> "int", v |-> 42]
StrV == [t |-> "str", v |-> "open-palm"]
ListV(s) == [t |-> "list", v |-> s]
DictV(f) == [t |-> "dict", v |-> f]
\* A local variable that has not been assigned yet.
Unbound == [t |-> "unbound", v |-> "unbound"]

\* Landmark points, in tenths: [0.1, 0.2] and [0.3, 0.4].
Points == {<<1, 2>>, <<3, 4>>}

PointLists == UNION {[1..n -> Points] : n \in 0..MaxLandmarks}

\* What the `landmarks` key of an event may hold: null, a number, a string,
\* or a list of points (empty or not).
LandmarkValues == {NoneV, IntV, StrV} \cup {ListV(s) : s \in PointLists}

\* The items of a mapping event: with or without `landmarks`, with or
\* without another key.
EventItems ==
  {<<>>, ("user" :> StrV)}
    \cup {("landmarks" :> lv) : lv \in LandmarkValues}
    \cup {("landmarks" :> lv) @@ ("user" :> StrV) : lv \in LandmarkValues}

MappingEvents == {DictV(f) : f \in EventItems}

\* Events that are not mappings: JSON null and a JSON array.
NonMappingEvents == {NoneV, ListV(<<>>)}

Events == MappingEvents \cup NonMappingEvents

Contexts == {"ctx-a", "ctx-b"}

IsMapping(x) == x.t = "dict"

(***************************************************************************)
(* The literals of the source.                                             *)
(***************************************************************************)
StatusOK == 200

KeyMessage ==
  << "m", "e", "s", "s", "a", "g", "e" >>

KeyStatus ==
  << "s", "t", "a", "t", "u", "s" >>

Message ==
  <<
     "H", "a", "n", "d", "s", "h", "a", "k", "e", " ", "S", "u", "c", "c",
     "e", "s", "s", "f", "u", "l", ":", " ", "R", "e", "a", "d", "y", " ",
     "f", "o", "r", " ", "B", "e", "d", "r", "o", "c", "k", " ", "I", "n",
     "f", "e", "r", "e", "n", "c", "e"
  >>

Status ==
  <<
     "A", "w", "a", "i", "t", "i", "n", "g", " ", "A", "W", "S", " ", "C",
     "r", "e", "d", "i", "t", "s"
  >>

\* The dict literal handed to json.dumps, in insertion order.
Payload == << <<KeyMessage, Message>>, <<KeyStatus, Status>> >>

(***************************************************************************)
(* json.dumps on a dict of strings, with Python's defaults: item separator *)
(* ", ", key separator ": ", keys in insertion order, strings quoted with  *)
(* `"` and `\` escaped by a backslash.  (The characters of the literals    *)
(* are printable ASCII; control and non-ASCII characters, which json.dumps *)
(* escapes as \n, \uXXXX, ..., do not occur in them.)                      *)
(***************************************************************************)
RECURSIVE EscapeChars(_)
EscapeChars(s) ==
  IF s = <<>> THEN <<>>
  ELSE IF Head(s) \in {"\"", "\\"}
       THEN <<"\\", Head(s)>> \o EscapeChars(Tail(s))
       ELSE <<Head(s)>> \o EscapeChars(Tail(s))

\* Variant: the payload rendered with str() instead of json.dumps, which
\* quotes with apostrophes.
EncodeStrRepr(s) == <<"'">> \o s \o <<"'">>

EncodeStr(s) == <<"\"">> \o EscapeChars(s) \o <<"\"">>

\* Variant: json.dumps called with separators=(',', ':').
ItemSeparatorCompact == <<",">>

ItemSeparator == <<",", " ">>

KeySeparator == <<":", " ">>

RECURSIVE DumpsItems(_)
DumpsItems(items) ==
  IF items = <<>> THEN <<>>
  ELSE EncodeStr(Head(items)[1]) \o KeySeparator \o EncodeStr(Head(items)[2])
         \o (IF Tail(items) = <<>> THEN <<>> ELSE ItemSeparator)
         \o DumpsItems(Tail(items))

Dumps(items) == <<"{">> \o DumpsItems(items) \o <<"}">>

(***************************************************************************)
(* The statements of lambda_handler.                                       *)
(***************************************************************************)
EmptyList == ListV(<<>>)

\* Variant: `event.get(k) or default`, which also replaces a stored value
\* that is falsy (None, an empty list).
DictGetOrDefault(d, k, default) ==
  IF k \in DOMAIN d /\ d[k] # NoneV /\ d[k] # ListV(<<>>) THEN d[k]
  ELSE default

\* dict.get(k, default): the stored value when the key is present,
\* whatever that value is; the default only when the key is absent.
DictGet(d, k, default) == IF k \in DOMAIN d THEN d[k] ELSE default

\* Variant: event['landmarks'], which raises KeyError on a missing key.
GetLandmarksSubscript(ev) ==
  IF ~IsMapping(ev)
  THEN [raised |-> TRUE, exc |-> "TypeError", value |-> Unbound, event |-> ev]
  ELSE IF "landmarks" \in DOMAIN ev.v
  THEN [raised |-> FALSE, exc |-> "none", value |-> ev.v["landmarks"],
        event |-> ev]
  ELSE [raised |-> TRUE, exc |-> "KeyError", value |-> Unbound, event |-> ev]

\* Variant: the extraction followed by len(landmarks), which raises
\* TypeError on a value that has no length (None, a number).
GetLandmarksLen(ev) ==
  IF ~IsMapping(ev)
  THEN [raised |-> TRUE, exc |-> "AttributeError", value |-> Unbound,
        event |-> ev]
  ELSE LET lm == IF "landmarks" \in DOMAIN ev.v THEN ev.v["landmarks"]
                 ELSE ListV(<<>>) IN
    IF lm.t \in {"list", "str", "dict"}
    THEN [raised |-> FALSE, exc |-> "none", value |-> lm, event |-> ev]
    ELSE [raised |-> TRUE, exc |-> "TypeError", value |-> lm, event |-> ev]

\* Variant: the extraction followed by a check that rejects a value that is
\* not a list with ValueError.
GetLandmarksValidated(ev) ==
  IF ~IsMapping(ev)
  THEN [raised |-> TRUE, exc |-> "AttributeError", value |-> Unbound,
        event |-> ev]
  ELSE LET lm == IF "landmarks" \in DOMAIN ev.v THEN ev.v["landmarks"]
                 ELSE ListV(<<>>) IN
    IF lm.t = "list"
    THEN [raised |-> FALSE, exc |-> "none", value |-> lm, event |-> ev]
    ELSE [raised |-> TRUE, exc |-> "ValueError", value |-> lm, event |-> ev]

\* Variant: event.setdefault('landmarks', []), which stores the default in
\* the event when the key is missing.
GetLandmarksSetDefault(ev) ==
  IF ~IsMapping(ev)
  THEN [raised |-> TRUE, exc |-> "AttributeError", value |-> Unbound,
        event |-> ev]
  ELSE IF "landmarks" \in DOMAIN ev.v
  THEN [raised |-> FALSE, exc |-> "none", value |-> ev.v["landmarks"],
        event |-> ev]
  ELSE [raised |-> FALSE, exc |-> "none", value |-> ListV(<<>>),
        event |-> DictV(("landmarks" :> ListV(<<>>)) @@ ev.v)]

\* landmarks = event.get('landmarks', []): the outcome of the statement and
\* the event as the statement leaves it.  An event that is not a mapping
\* has no attribute `get`.
GetLandmarks(ev) ==
  IF IsMapping(ev)
  THEN [raised |-> FALSE, exc |-> "none",
        value |-> DictGet(ev.v, "landmarks", EmptyList), event |-> ev]
  ELSE [raised |-> TRUE, exc |-> "AttributeError",
        value |-> Unbound, event |-> ev]

\* Variant: an early `return` when there are no landmarks.
AfterExtractEarly(lm) == IF lm = ListV(<<>>) THEN "returned" ELSE "build"

\* After the extraction control falls through to the return statement.
AfterExtract(lm) == "build"

\* "2. Placeholder for Amazon Bedrock Invocation": comments only, no call.
BedrockPlaceholder(n) == n

\* The value of the dict literal that is returned.
ResponseValue == [statusCode |-> StatusOK, body |-> Dumps(Payload)]

\* Variant: the response dict built once at module level and returned by
\* every invocation.
BuildResponseCached(h, k) ==
  IF DOMAIN h # {}
  THEN [addr |-> CHOOSE a \in DOMAIN h : TRUE, heap |-> h]
  ELSE [addr |-> k, heap |-> (k :> ResponseValue) @@ h]

\* Variant: a module-level request counter that throttles every invocation
\* after the first.
BuildResponseThrottled(h, k) ==
  [addr |-> k,
   heap |-> (k :> IF k > 1 THEN [ResponseValue EXCEPT !.statusCode = 429]
                  ELSE ResponseValue) @@ h]

\* The return statement evaluates the dict literal: a new object, at an
\* address no earlier invocation used (k is the number of this invocation).
BuildResponse(h, k) ==
  [addr |-> k, heap |-> (k :> ResponseValue) @@ h]

(***************************************************************************)
(* State.                                                                  *)
(***************************************************************************)
VARIABLES
  pc,            \* "idle", "extract", "build", "returned", "held", "raised"
  event,         \* the event object of the current invocation
  context,       \* the context object of the current invocation
  landmarks,     \* the local variable `landmarks`
  heap,          \* the response objects the caller holds, by address
  ret,           \* address of the object the current invocation returned,
                 \* 0 before the return
  exc,           \* exception the current invocation ended in, or "none"
  nCalls,        \* invocations started so far
  nExtract,      \* field extractions done by the current invocation
  nBuild,        \* responses constructed by the current invocation
  bedrockCalls,  \* calls made to the inference service
  passed,        \* the event and context as the caller passed them
  first,         \* event and outcome of the first completed invocation
  tampered       \* the caller has modified a response it received

vars == <<pc, event, context, landmarks, heap, ret, exc, nCalls, nExtract,
          nBuild, bedrockCalls, passed, first, tampered>>

NoFirst == [done |-> FALSE, event |-> NoneV, raised |-> FALSE,
            exc |-> "none", response |-> <<>>]

Init ==
  /\ pc = "idle"
  /\ event = NoneV
  /\ context = "ctx-a"
  /\ landmarks = Unbound
  /\ heap = <<>>
  /\ ret = 0
  /\ exc = "none"
  /\ nCalls = 0
  /\ nExtract = 0
  /\ nBuild = 0
  /\ bedrockCalls = 0
  /\ passed = [event |-> NoneV, context |-> "ctx-a"]
  /\ first = NoFirst
  /\ tampered = FALSE

\* The outcome of the first invocation is recorded when it completes.
RecordFirst(isRaise, e, ev, resp) ==
  IF first.done THEN first
  ELSE [done |-> TRUE, event |-> ev, raised |-> isRaise, exc |-> e,
        response |-> resp]

\* The gateway calls lambda_handler(e, c).
Invoke(e, c) ==
  /\ pc \in {"idle", "returned", "held", "raised"}
  /\ nCalls < MaxCalls
  /\ pc' = "extract"
  /\ event' = e
  /\ context' = c
  /\ passed' = [event |-> e, context |-> c]
  /\ landmarks' = Unbound
  /\ ret' = 0
  /\ exc' = "none"
  /\ nCalls' = nCalls + 1
  /\ nExtract' = 0
  /\ nBuild' = 0
  /\ UNCHANGED <<heap, bedrockCalls, first, tampered>>

\* landmarks = event.get('landmarks', [])
Extract ==
  /\ pc = "extract"
  /\ LET r == GetLandmarks(event) IN
       /\ event' = r.event
       /\ landmarks' = r.value
       /\ exc' = r.exc
       /\ pc' = IF r.raised THEN "raised" ELSE AfterExtract(r.value)
       /\ first' = IF r.raised
                   THEN RecordFirst(TRUE, r.exc, passed.event, <<>>)
                   ELSE first
  /\ nExtract' = nExtract + 1
  /\ UNCHANGED <<context, heap, ret, nCalls, nBuild, bedrockCalls, passed,
                 tampered>>

\* return {'statusCode': 200, 'body': json.dumps({...})}
\* The caller keeps the object it has just received and drops the others.
Build ==
  /\ pc = "build"
  /\ LET r == BuildResponse(heap, nCalls) IN
       /\ ret' = r.addr
       /\ heap' = [a \in {r.addr} |-> r.heap[a]]
       /\ first' = RecordFirst(FALSE, "none", passed.event, r.heap[r.addr])
  /\ bedrockCalls' = BedrockPlaceholder(bedrockCalls)
  /\ nBuild' = nBuild + 1
  /\ pc' = "returned"
  /\ UNCHANGED <<event, context, landmarks, exc, nCalls, nExtract, passed,
                 tampered>>

\* The caller overwrites the statusCode of the response it holds.
TamperStatus ==
  /\ pc \in {"returned", "held"}
  /\ ret \in DOMAIN heap
  /\ heap[ret].statusCode = StatusOK
  /\ heap' = [heap EXCEPT ![ret].statusCode = 500]
  /\ pc' = "held"
  /\ tampered' = TRUE
  /\ UNCHANGED <<event, context, landmarks, ret, exc, nCalls, nExtract,
                 nBuild, bedrockCalls, passed, first>>

\* The caller overwrites the body of the response it holds.
TamperBody ==
  /\ pc \in {"returned", "held"}
  /\ ret \in DOMAIN heap
  /\ heap[ret].body # <<>>
  /\ heap' = [heap EXCEPT ![ret].body = <<>>]
  /\ pc' = "held"
  /\ tampered' = TRUE
  /\ UNCHANGED <<event, context, landmarks, ret, exc, nCalls, nExtract,
                 nBuild, bedrockCalls, passed, first>>

Next ==
  \/ \E e \in Events, c \in Contexts : Invoke(e, c)
  \/ Extract
  \/ Build
  \/ TamperStatus
  \/ TamperBody

Spec == Init /\ [][Next]_vars

\* The interpreter runs a started invocation to its end.
FairSpec == Spec /\ WF_vars(Extract) /\ WF_vars(Build)


(***************************************************************************)
(* What the specification says the handler returns, and a JSON decoder to  *)
(* read a body back.  Neither is part of the program.                      *)
(***************************************************************************)
\* The body of the "Output shape" of the specification, character by
\* character.
SpecBody ==
  <<
     "{", "\"", "m", "e", "s", "s", "a", "g", "e", "\"", ":", " ", "\"", "H",
     "a", "n", "d", "s", "h", "a", "k", "e", " ", "S", "u", "c", "c", "e",
     "s", "s", "f", "u", "l", ":", " ", "R", "e", "a", "d", "y", " ", "f",
     "o", "r", " ", "B", "e", "d", "r", "o", "c", "k", " ", "I", "n", "f",
     "e", "r", "e", "n", "c", "e", "\"", ",", " ", "\"", "s", "t", "a", "t",
     "u", "s", "\"", ":", " ", "\"", "A", "w", "a", "i", "t", "i", "n", "g",
     " ", "A", "W", "S", " ", "C", "r", "e", "d", "i", "t", "s", "\"", "}"
  >>

SpecResponse == [statusCode |-> 200, body |-> SpecBody]

\* Decoder for JSON objects whose values are strings or unsigned integers.
\* Of the string escapes it reads \" \\ and \/ ; any other text is rejected.
Whitespace == {" ", "\t", "\n", "\r"}

Digits == {"0", "1", "2", "3", "4", "5", "6", "7", "8", "9"}

ParseFail == [ok |-> FALSE, val |-> <<>>, kind |-> "none", next |-> 0]

RECURSIVE SkipWs(_, _)
SkipWs(s, i) ==
  IF i <= Len(s) /\ s[i] \in Whitespace THEN SkipWs(s, i + 1) ELSE i

\* i is the position after the opening quote.
RECURSIVE ScanString(_, _, _)
ScanString(s, i, acc) ==
  IF i > Len(s) THEN ParseFail
  ELSE IF s[i] = "\""
       THEN [ok |-> TRUE, val |-> acc, kind |-> "string", next |-> i + 1]
  ELSE IF s[i] = "\\"
       THEN IF i + 1 <= Len(s) /\ s[i + 1] \in {"\"", "\\", "/"}
            THEN ScanString(s, i + 2, Append(acc, s[i + 1]))
            ELSE ParseFail
  ELSE ScanString(s, i + 1, Append(acc, s[i]))

RECURSIVE ScanNumber(_, _, _)
ScanNumber(s, i, acc) ==
  IF i <= Len(s) /\ s[i] \in Digits
  THEN ScanNumber(s, i + 1, Append(acc, s[i]))
  ELSE [ok |-> TRUE, val |-> acc, kind |-> "number", next |-> i]

ParseValue(s, i) ==
  IF i > Len(s) THEN ParseFail
  ELSE IF s[i] = "\"" THEN ScanString(s, i + 1, <<>>)
  ELSE IF s[i] \in Digits THEN ScanNumber(s, i, <<>>)
  ELSE ParseFail

\* i is the position of the first character of a member; acc holds the
\* members read so far as <<key, kind, value>>.
RECURSIVE ParseMembers(_, _, _)
ParseMembers(s, i, acc) ==
  IF i > Len(s) \/ s[i] # "\"" THEN ParseFail
  ELSE LET k == ScanString(s, i + 1, <<>>) IN
    IF ~k.ok THEN ParseFail
    ELSE LET c == SkipWs(s, k.next) IN
      IF c > Len(s) \/ s[c] # ":" THEN ParseFail
      ELSE LET v == ParseValue(s, SkipWs(s, c + 1)) IN
        IF ~v.ok THEN ParseFail
        ELSE LET e == SkipWs(s, v.next)
                 got == Append(acc, <<k.val, v.kind, v.val>>) IN
          IF e > Len(s) THEN ParseFail
          ELSE IF s[e] = "}"
               THEN [ok |-> TRUE, val |-> got, kind |-> "object",
                     next |-> e + 1]
          ELSE IF s[e] = "," THEN ParseMembers(s, SkipWs(s, e + 1), got)
          ELSE ParseFail

\* json.loads restricted to objects: the whole text must be one object.
Loads(s) ==
  LET b == SkipWs(s, 1) IN
    IF b > Len(s) \/ s[b] # "{" THEN ParseFail
    ELSE LET m == SkipWs(s, b + 1)
             r == IF m <= Len(s) /\ s[m] = "}"
                  THEN [ok |-> TRUE, val |-> <<>>, kind |-> "object",
                        next |-> m + 1]
                  ELSE ParseMembers(s, m, <<>>) IN
      IF r.ok /\ SkipWs(s, r.next) = Len(s) + 1 THEN r ELSE ParseFail

(***************************************************************************)
(* Predicates on the state used by the properties.                         *)
(***************************************************************************)
\* The current invocation has just ended (by return or by exception) and
\* the caller has not touched the response yet.
Ended == pc \in {"returned", "raised"}

HasLandmarks(ev) == IsMapping(ev) /\ "landmarks" \in DOMAIN ev.v

NonEmptyList(x) == x.t = "list" /\ x.v # <<>>

WithNonEmptyLandmarks(ev) ==
  HasLandmarks(ev) /\ NonEmptyList(ev.v["landmarks"])

MissingLandmarks(ev) == IsMapping(ev) /\ "landmarks" \notin DOMAIN ev.v

NullLandmarks(ev) == HasLandmarks(ev) /\ ev.v["landmarks"] = NoneV

\* The invocation has returned a response object.
Returned == pc = "returned" /\ ret \in DOMAIN heap

(***************************************************************************)
(* Properties.                                                             *)
(***************************************************************************)

\* C1: an invocation on a mapping event whose `landmarks` is a non-empty
\* list ends by returning, and the response is statusCode 200 with exactly
\* the body of the specification, whatever the list.
C1_FixedResponse ==
  (Ended /\ WithNonEmptyLandmarks(passed.event))
    => (Returned /\ heap[ret] = SpecResponse)

C1_Witness ==
  /\ Returned
  /\ WithNonEmptyLandmarks(passed.event)
  /\ Len(passed.event.v["landmarks"].v) = MaxLandmarks
  /\ heap[ret] = SpecResponse

\* C2: an invocation on a mapping event without a `landmarks` key does not
\* raise, and its response is the one an invocation on a non-empty
\* landmark list got.
C2_MissingSameResponse ==
  (Ended /\ MissingLandmarks(passed.event))
    => /\ Returned
       /\ (first.done /\ WithNonEmptyLandmarks(first.event))
            => (~first.raised /\ heap[ret] = first.response)

C2_Witness ==
  /\ Returned
  /\ passed.event = DictV(<<>>)
  /\ first.done
  /\ WithNonEmptyLandmarks(first.event)
  /\ heap[ret] = first.response

\* C3: an invocation on a mapping event whose `landmarks` is null does not
\* raise, and its response is the one an invocation on a non-empty
\* landmark list got.
C3_NullSameResponse ==
  (Ended /\ NullLandmarks(passed.event))
    => /\ Returned
       /\ (first.done /\ WithNonEmptyLandmarks(first.event))
            => (~first.raised /\ heap[ret] = first.response)

C3_Witness ==
  /\ Returned
  /\ NullLandmarks(passed.event)
  /\ first.done
  /\ WithNonEmptyLandmarks(first.event)
  /\ heap[ret] = first.response

\* C4 as stated: no invocation, whatever its event, ends in an exception
\* or in a response whose statusCode is not 200.
C4_NeverFails ==
  /\ pc # "raised"
  /\ Returned => heap[ret].statusCode = SpecResponse.statusCode

\* C4 amended: an invocation on a mapping event, whatever its content,
\* ends by returning a response with statusCode 200; an invocation ends in
\* an exception only on an event that is not a mapping, and the exception
\* is then AttributeError, raised by the field extraction.
C4_MappingNeverFails ==
  /\ (Ended /\ IsMapping(passed.event))
       => (Returned /\ heap[ret].statusCode = SpecResponse.statusCode)
  /\ (Ended /\ ~IsMapping(passed.event))
       => (pc = "raised" /\ exc = "AttributeError" /\ nBuild = 0)

C4_Witness ==
  /\ Returned
  /\ HasLandmarks(passed.event)
  /\ passed.event.v["landmarks"] = IntV
  /\ heap[ret].statusCode = SpecResponse.statusCode

\* Whether a `landmarks` value is a well-formed sequence.
WellFormedSequence(x) == x.t = "list"

\* C5 as stated: after the extraction the local `landmarks` is the event's
\* own value when that value is a well-formed sequence, and the empty
\* sequence when the key is missing or its value is malformed.
C5_MalformedDefaultsToEmpty ==
  (pc \in {"build", "returned", "held"} /\ IsMapping(passed.event))
    => landmarks =
         IF HasLandmarks(passed.event)
              /\ WellFormedSequence(passed.event.v["landmarks"])
         THEN passed.event.v["landmarks"]
         ELSE EmptyList

\* C5 amended: after the extraction the local `landmarks` is the empty
\* sequence when the event has no `landmarks` key, and the event's own
\* value whenever the key is present, whatever the value: null and
\* non-sequence values are kept as they are.
C5_DefaultOnlyWhenMissing ==
  (pc \in {"build", "returned", "held"} /\ IsMapping(passed.event))
    => landmarks =
         IF HasLandmarks(passed.event)
         THEN passed.event.v["landmarks"]
         ELSE EmptyList

C5_Witness ==
  /\ pc = "build"
  /\ NullLandmarks(passed.event)
  /\ landmarks = NoneV

\* C6: an invocation leaves the event (its keys and its landmark list) and
\* the context as the caller passed them, and no call to the inference
\* service is ever made.
C6_NoSideEffects ==
  /\ event = passed.event
  /\ context = passed.context
  /\ bedrockCalls = 0

C6_Witness ==
  /\ Returned
  /\ MissingLandmarks(passed.event)
  /\ event = passed.event
  /\ nCalls > 1

\* C7: an invocation on the event the first invocation was given ends as
\* the first invocation did: with the same response, or with the same
\* exception.
C7_Independent ==
  (Ended /\ first.done /\ passed.event = first.event)
    => /\ (pc = "raised") = first.raised
       /\ exc = first.exc
       /\ Returned => heap[ret] = first.response

C7_Witness ==
  /\ Returned
  /\ nCalls = MaxCalls
  /\ tampered
  /\ passed.event = first.event
  /\ heap[ret] = first.response

\* The members of a decoded object, as the set of their keys.
MemberKeys(members) == {members[i][1] : i \in 1..Len(members)}

\* C8: a returned response has exactly the fields statusCode and body,
\* statusCode is 200, and body decodes as JSON to an object with exactly
\* the two keys `message` and `status`, both with string values.
C8_WellFormed ==
  Returned =>
    /\ DOMAIN heap[ret] = {"statusCode", "body"}
    /\ heap[ret].statusCode = SpecResponse.statusCode
    /\ LET d == Loads(heap[ret].body) IN
         /\ d.ok
         /\ Len(d.val) = 2
         /\ MemberKeys(d.val) = {KeyMessage, KeyStatus}
         /\ \A i \in 1..Len(d.val) : d.val[i][2] = "string"

C8_Witness ==
  /\ Returned
  /\ Loads(heap[ret].body).ok
  /\ Len(Loads(heap[ret].body).val) = 2

\* C9: an invocation started on a mapping event eventually returns; when
\* it has returned it has done exactly one extraction and one response
\* construction; and after the return nothing of the invocation changes
\* until the next invocation starts.
C9_SingleShot ==
  /\ [](pc \in {"returned", "held"} => (nExtract = 1 /\ nBuild = 1))
  /\ [][(pc \in {"returned", "held", "raised"} /\ nCalls' = nCalls)
          => UNCHANGED <<landmarks, ret, exc, nExtract, nBuild, event>>]_vars
  /\ ((pc = "extract" /\ IsMapping(event)) ~> (pc = "returned"))

C9_Witness ==
  /\ pc = "held"
  /\ IsMapping(passed.event)
  /\ nExtract = 1
  /\ nBuild = 1
  /\ nCalls = MaxCalls

\* C10: after the caller has modified a response it received, a later
\* invocation still returns statusCode 200 with the fixed body.
C10_FreshResponse ==
  (Returned /\ tampered)
    => /\ heap[ret].statusCode = SpecResponse.statusCode
       /\ heap[ret].body = SpecBody

C10_Witness ==
  /\ Returned
  /\ tampered
  /\ heap[ret].body = SpecBody

=============================================================================
